---- MODULE Spec2Model ----
(***************************************************************************)
(* Model of mindsdb/integrations/handlers/snowflake_handler/               *)
(* snowflake_handler.py: the SnowflakeHandler connection state machine,    *)
(* native_query (bulk fetch loop with the memory guard, fallback parsing), *)
(* lowercase_columns and _map_type.                                        *)
(*                                                                         *)
(* Strings whose characters matter (type names, column names) are          *)
(* sequences of one-character strings, so that upper(), lower(),           *)
(* isupper() and the substring test of `in` are computed, not assumed.     *)
(***************************************************************************)
EXTENDS Integers, Sequences, FiniteSets, TLC

VARIABLES
    connection_data_ok,   \* all of account, user, password, database present
    is_connected,         \* self.is_connected
    connection,           \* the handle self.connection: "None", "open", "closed"
    leaked,               \* open driver connections no longer referenced
    pc,                   \* "idle", or "fetching" inside native_query's loop
    nq,                   \* locals of the running native_query call
    last,                 \* what the last finished call did (history)
    connCalls,            \* connect() calls since the last disconnect() (0..2)
    connDrv,              \* driver calls those connect() calls made (0..2)
    internal_type_name,   \* argument of _map_type
    map_out,              \* result of _map_type
    query,                \* argument of query(): the AST
    result,               \* the Response native_query gave to query()
    lc_out                \* what lowercase_columns returned

vars == <<connection_data_ok, is_connected, connection, leaked, pc, nq, last,
          connCalls, connDrv, internal_type_name, map_out, query, result, lc_out>>

handlerVars == <<connection_data_ok, is_connected, connection, leaked, pc, nq,
                 last, connCalls, connDrv>>
mapVars == <<internal_type_name, map_out>>
colVars == <<query, result, lc_out>>

----------------------------------------------------------------------------
(* Bounds *)

MaxLeaked == 2        \* open connections the handler may have lost track of
MaxBatches == 3       \* batches one bulk fetch yields
MaxFetchRows == 2     \* records one fetchall() returns
MaxTargets == 2       \* select targets of one query

(* Program constants *)

MemCheckRows == 1000  \* batches_rowcount > 1000

----------------------------------------------------------------------------
(* Exceptions *)

\* Classes derived from Exception that the driver, pandas or the handler raise.
\* MemoryError derives from Exception in Python.
ExceptionClasses == {"ProgrammingError", "RuntimeError", "ValueError",
                     "NotSupportedError", "MemoryError"}

\* snowflake.connector.errors.Error and its subclasses
ConnectorErrors == {"ProgrammingError", "NotSupportedError"}

\* `except Exception as e` of native_query, without the MemoryError
CaughtByExceptException_NoMemoryError(e) ==
    e \in ExceptionClasses \ {"MemoryError"}

\* `except Exception as e` of native_query
CaughtByExceptException(e) == e \in ExceptionClasses

\* `except (connector.errors.Error, ValueError)` of check_connection
CaughtByCheckConnection(e) == e \in ConnectorErrors \cup {"ValueError"}

----------------------------------------------------------------------------
(* connect() and disconnect() as state transformers *)

HandlerState == [is_connected |-> is_connected, connection |-> connection,
                 leaked |-> leaked]

OpenCount(h) == h.leaked + (IF h.connection = "open" THEN 1 ELSE 0)

\* `if self.is_connected is True: return self.connection`, dropped
AlreadyConnected_Never(h) == FALSE

\* `if self.is_connected is True: return self.connection`
AlreadyConnected(h) == h.is_connected = TRUE

\* connect(): drv is the number of connector.connect calls made, raised the
\* exception that leaves connect() ("None" when it returns the handle).
\* Replacing self.connection while the old handle is open loses that handle.
connect(h, driver_ok) ==
    IF AlreadyConnected(h)
    THEN [h |-> h, drv |-> 0, raised |-> "None"]
    ELSE IF ~connection_data_ok
    THEN [h |-> h, drv |-> 0, raised |-> "ValueError"]
    ELSE IF driver_ok
    THEN [h |-> [is_connected |-> TRUE, connection |-> "open",
                 leaked |-> OpenCount(h)],
          drv |-> 1, raised |-> "None"]
    ELSE [h |-> h, drv |-> 1, raised |-> "ProgrammingError"]

\* disconnect(); connection.close() is taken to return
disconnect(h) ==
    IF h.is_connected = FALSE
    THEN h
    ELSE [h EXCEPT !.connection = "closed", !.is_connected = FALSE]

\* the bound on lost connections, as a guard on a call's resulting state
WithinBounds(h) == h.leaked <= MaxLeaked

----------------------------------------------------------------------------
(* History records *)

NoFetch == [is_list |-> FALSE, rows |-> <<>>]

NoLast == [op |-> "none", outcome |-> "return", kind |-> "None",
           exc |-> "None", has_affected |-> FALSE, affected_rows |-> 0,
           warned |-> FALSE, started_connected |-> FALSE, drv |-> 0,
           opened |-> FALSE, path |-> "none", fetched_list |-> FALSE,
           fetched_len |-> 0,
           mem_tripped |-> FALSE, rows_seen |-> <<>>, checks |-> 0,
           check_at |-> 0]

NoNq == [need_to_close |-> FALSE, started_connected |-> FALSE, drv |-> 0,
         total_rowcount |-> 0, batches |-> <<>>, pending |-> <<>>,
         memory_estimation_check_done |-> FALSE, checks |-> 0, check_at |-> 0]

SetHandler(h) ==
    /\ is_connected' = h.is_connected
    /\ connection' = h.connection
    /\ leaked' = h.leaked

----------------------------------------------------------------------------
(* connect(), disconnect(), check_connection() called by the host engine *)

Connect ==
    /\ pc = "idle"
    /\ \E driver_ok \in BOOLEAN :
         LET c == connect(HandlerState, driver_ok) IN
           /\ WithinBounds(c.h)
           /\ SetHandler(c.h)
           /\ last' = [NoLast EXCEPT
                         !.op = "connect",
                         !.outcome = IF c.raised = "None" THEN "return" ELSE "raise",
                         !.exc = c.raised,
                         !.started_connected = is_connected,
                         !.drv = c.drv,
                         !.opened = (c.drv = 1 /\ c.raised = "None")]
           /\ connCalls' = IF connCalls < 2 THEN connCalls + 1 ELSE 2
           /\ connDrv' = IF connDrv + c.drv < 2 THEN connDrv + c.drv ELSE 2
    /\ UNCHANGED <<connection_data_ok, pc, nq>>

Disconnect ==
    /\ pc = "idle"
    /\ SetHandler(disconnect(HandlerState))
    /\ last' = [NoLast EXCEPT !.op = "disconnect",
                              !.started_connected = is_connected]
    /\ connCalls' = 0
    /\ connDrv' = 0
    /\ UNCHANGED <<connection_data_ok, pc, nq>>

\* What cursor() + execute('select 1;') of check_connection can do
SelectOneOutcomes == {"ok", "ProgrammingError", "RuntimeError"}

CheckConnection ==
    /\ pc = "idle"
    /\ \E driver_ok \in BOOLEAN, select_one \in SelectOneOutcomes :
         LET need_to_close == ~is_connected
             c == connect(HandlerState, driver_ok)
             raised == IF c.raised # "None" THEN c.raised
                       ELSE IF select_one # "ok" THEN select_one
                       ELSE "None"
             caught == raised # "None" /\ CaughtByCheckConnection(raised)
             success == raised = "None"
             l == [NoLast EXCEPT
                     !.op = "check_connection",
                     !.started_connected = is_connected,
                     !.drv = c.drv,
                     !.opened = (c.drv = 1 /\ c.raised = "None"),
                     !.exc = raised]
         IN
           /\ WithinBounds(c.h)
           /\ IF raised # "None" /\ ~caught
              THEN \* the exception leaves check_connection
                   /\ SetHandler(c.h)
                   /\ last' = [l EXCEPT !.outcome = "raise"]
                   /\ UNCHANGED <<connCalls, connDrv>>
              ELSE IF success /\ need_to_close
              THEN /\ SetHandler(disconnect(c.h))
                   /\ last' = [l EXCEPT !.kind = "success"]
                   /\ connCalls' = 0
                   /\ connDrv' = 0
              ELSE IF ~success /\ c.h.is_connected
              THEN /\ SetHandler([c.h EXCEPT !.is_connected = FALSE])
                   /\ last' = [l EXCEPT !.kind = "failure"]
                   /\ UNCHANGED <<connCalls, connDrv>>
              ELSE /\ SetHandler(c.h)
                   /\ last' = [l EXCEPT !.kind = IF success THEN "success"
                                                 ELSE "failure"]
                   /\ UNCHANGED <<connCalls, connDrv>>
    /\ UNCHANGED <<connection_data_ok, pc, nq>>

----------------------------------------------------------------------------
(* native_query: what the driver can answer *)

\* One batch of fetch_pandas_batches: len(batch_df) and its memory_usage in KB
Batch == { [rows |-> 400, size_kb |-> 100],
           [rows |-> 600, size_kb |-> 4000],
           [rows |-> 1001, size_kb |-> 4000] }

RECURSIVE SeqsUpTo(_, _)
SeqsUpTo(S, n) ==
    IF n = 0 THEN {<<>>}
    ELSE LET shorter == SeqsUpTo(S, n - 1) IN
         shorter \cup {Append(q, x) : q \in {r \in shorter : Len(r) = n - 1}, x \in S}

BatchPlans == SeqsUpTo(Batch, MaxBatches)

\* psutil.virtual_memory().available >> 10
AvailableMemoryKb == {1000, 1000000}

\* Records fetchall() of a DictCursor can return on the fallback path
FetchRecords ==
    { "number of rows inserted" :> 7,
      "number of rows deleted" :> 2,
      "number of rows updated" :> 3 @@ "number of multi-joined rows updated" :> 0,
      "number of rows updated" :> 3,
      "status" :> 1 }

\* fetchall() gives a list of records, or something that is no list (None)
FetchallResults ==
    {[is_list |-> TRUE, rows |-> r] : r \in SeqsUpTo(FetchRecords, MaxFetchRows)}
      \cup {NoFetch}

\* What cur.execute(query) can do
ExecuteOutcomes == {"ok", "ProgrammingError", "RuntimeError"}

\* What cur.fetch_pandas_batches() can do
BulkFetchOutcomes == {"iterator", "ValueError", "NotSupportedError", "RuntimeError"}

\* What cur.fetchall() can do
FetchallOutcomes == {"ok", "ProgrammingError"}

----------------------------------------------------------------------------
(* native_query: the memory guard *)

RECURSIVE RowCount(_)
\* sum([len(x) for x in batches])
RowCount(batches) ==
    IF batches = <<>> THEN 0
    ELSE Head(batches).rows + RowCount(Tail(batches))

RECURSIVE SizeKb(_)
\* sum([(x.memory_usage(index=True, deep=True).sum() >> 10) for x in batches])
SizeKb(batches) ==
    IF batches = <<>> THEN 0
    ELSE Head(batches).size_kb + SizeKb(Tail(batches))

\* the guard with the once-only flag forgotten
MemCheckDue_EveryBatch(done, batches_rowcount) == batches_rowcount > MemCheckRows

\* `memory_estimation_check_done is False and batches_rowcount > 1000`
MemCheckDue(done, batches_rowcount) ==
    done = FALSE /\ batches_rowcount > MemCheckRows

\* int((rest_rowcount / batches_rowcount) * batches_size_kb), rest_rowcount >= 0,
\* in exact arithmetic (the float quotient agrees for the sizes used here)
RestEstimatedSizeKb(total_rowcount, batches) ==
    ((total_rowcount - RowCount(batches)) * SizeKb(batches)) \div RowCount(batches)

\* `(available_memory_kb * 0.9) < rest_estimated_size_kb`
TooLarge(available_memory_kb, rest_estimated_size_kb) ==
    available_memory_kb * 9 < rest_estimated_size_kb * 10

----------------------------------------------------------------------------
(* native_query: the fallback match statement *)

HasKey(rows, k) == Len(rows) = 1 /\ k \in DOMAIN rows[1]

\* `match result:` of the fallback path. A sequence pattern [{...}] takes a
\* list of exactly one record holding the keys; `case list()` takes every
\* list, the empty one included; `case _` is left with what is no list.
MatchFallback(fetched) ==
    IF fetched.is_list /\ HasKey(fetched.rows, "number of rows inserted")
    THEN [kind |-> "OK", has_affected |-> TRUE,
          affected_rows |-> fetched.rows[1]["number of rows inserted"],
          warned |-> FALSE]
    ELSE IF fetched.is_list /\ HasKey(fetched.rows, "number of rows deleted")
    THEN [kind |-> "OK", has_affected |-> TRUE,
          affected_rows |-> fetched.rows[1]["number of rows deleted"],
          warned |-> FALSE]
    ELSE IF /\ fetched.is_list
            /\ HasKey(fetched.rows, "number of rows updated")
            /\ HasKey(fetched.rows, "number of multi-joined rows updated")
    THEN [kind |-> "OK", has_affected |-> TRUE,
          affected_rows |-> fetched.rows[1]["number of rows updated"],
          warned |-> FALSE]
    ELSE IF fetched.is_list
    THEN [kind |-> "TABLE", has_affected |-> FALSE, affected_rows |-> 0,
          warned |-> FALSE]
    ELSE [kind |-> "OK", has_affected |-> FALSE, affected_rows |-> 0,
          warned |-> TRUE]

----------------------------------------------------------------------------
(* native_query *)

NQLast(c, path) ==
    [NoLast EXCEPT !.op = "native_query",
                   !.started_connected = is_connected,
                   !.drv = c.drv,
                   !.opened = (c.drv = 1 /\ c.raised = "None"),
                   !.path = path]

\* Leaving the `with` block normally: lines 260-269. disconnect() is called
\* when the call opened the connection.
Finish(h, need_to_close, l) ==
    /\ SetHandler(IF need_to_close THEN disconnect(h) ELSE h)
    /\ connCalls' = IF need_to_close THEN 0 ELSE connCalls
    /\ connDrv' = IF need_to_close THEN 0 ELSE connDrv
    /\ last' = l
    /\ pc' = "idle"
    /\ nq' = NoNq

\* An exception leaving native_query: nothing after the raise point runs.
Propagate(h, l, e) ==
    /\ SetHandler(h)
    /\ last' = [l EXCEPT !.outcome = "raise", !.exc = e]
    /\ pc' = "idle"
    /\ nq' = NoNq
    /\ UNCHANGED <<connCalls, connDrv>>

\* An exception raised inside `try:` of line 179
RaisedInTry(h, need_to_close, l, e) ==
    IF CaughtByExceptException(e)
    THEN Finish(h, need_to_close, [l EXCEPT !.kind = "ERROR", !.exc = e])
    ELSE Propagate(h, l, e)

\* self.connect() raises: ValueError or the driver's error
NativeQueryConnectFails ==
    /\ pc = "idle"
    /\ \E driver_ok \in BOOLEAN :
         LET c == connect(HandlerState, driver_ok) IN
           /\ c.raised # "None"
           /\ Propagate(c.h, NQLast(c, "connect"), c.raised)
    /\ UNCHANGED connection_data_ok

\* connection.cursor(connector.DictCursor) raises, outside the try.
\* In this and the following actions connect() has returned the handle, so
\* the driver call, if one was made, succeeded.
NativeQueryCursorFails ==
    /\ pc = "idle"
    /\ LET c == connect(HandlerState, TRUE) IN
         /\ c.raised = "None"
         /\ WithinBounds(c.h)
         /\ Propagate(c.h, NQLast(c, "cursor"), "ProgrammingError")
    /\ UNCHANGED connection_data_ok

\* cur.execute(query) raises
NativeQueryExecuteFails ==
    /\ pc = "idle"
    /\ \E e \in ExecuteOutcomes \ {"ok"} :
         LET c == connect(HandlerState, TRUE) IN
           /\ c.raised = "None"
           /\ WithinBounds(c.h)
           /\ RaisedInTry(c.h, ~is_connected, NQLast(c, "execute"), e)
    /\ UNCHANGED connection_data_ok

\* `except ValueError: raise NotSupportedError()` around fetch_pandas_batches()
BulkFetchSignal(b) == IF b = "ValueError" THEN "NotSupportedError" ELSE b

\* fetch_pandas_batches() raises something that is not turned into the
\* NotSupportedError signal
NativeQueryBulkFails ==
    /\ pc = "idle"
    /\ \E b \in BulkFetchOutcomes \ {"iterator"} :
         LET c == connect(HandlerState, TRUE) IN
           /\ BulkFetchSignal(b) # "NotSupportedError"
           /\ c.raised = "None"
           /\ WithinBounds(c.h)
           /\ RaisedInTry(c.h, ~is_connected, NQLast(c, "bulk"), BulkFetchSignal(b))
    /\ UNCHANGED connection_data_ok

\* The fallback path is entered and fetchall() raises
NativeQueryFallbackFails ==
    /\ pc = "idle"
    /\ \E b \in BulkFetchOutcomes \ {"iterator"}, f \in FetchallOutcomes \ {"ok"} :
         LET c == connect(HandlerState, TRUE) IN
           /\ BulkFetchSignal(b) = "NotSupportedError"
           /\ c.raised = "None"
           /\ WithinBounds(c.h)
           /\ RaisedInTry(c.h, ~is_connected, NQLast(c, "fallback"), f)
    /\ UNCHANGED connection_data_ok

\* The fallback path: fetchall() and the match statement, lines 229-251
NativeQueryFallback ==
    /\ pc = "idle"
    /\ \E fetched \in FetchallResults :
         LET c == connect(HandlerState, TRUE)
             m == MatchFallback(fetched)
         IN
           /\ \E b \in BulkFetchOutcomes \ {"iterator"} :
                BulkFetchSignal(b) = "NotSupportedError"
           /\ c.raised = "None"
           /\ WithinBounds(c.h)
           /\ Finish(c.h, ~is_connected,
                     [NQLast(c, "fallback") EXCEPT
                        !.kind = m.kind,
                        !.has_affected = m.has_affected,
                        !.affected_rows = m.affected_rows,
                        !.warned = m.warned,
                        !.fetched_list = fetched.is_list,
                        !.fetched_len = Len(fetched.rows)])
    /\ UNCHANGED connection_data_ok

\* fetch_pandas_batches() returns the iterator: lines 184-190
NativeQueryBulkStart ==
    /\ pc = "idle"
    /\ \E plan \in BatchPlans :
         LET c == connect(HandlerState, TRUE) IN
           /\ c.raised = "None"
           /\ WithinBounds(c.h)
           /\ SetHandler(c.h)
           /\ nq' = [need_to_close |-> ~is_connected,
                     started_connected |-> is_connected,
                     drv |-> c.drv,
                     total_rowcount |-> RowCount(plan),
                     batches |-> <<>>,
                     pending |-> plan,
                     memory_estimation_check_done |-> FALSE,
                     checks |-> 0,
                     check_at |-> 0]
    /\ pc' = "fetching"
    /\ last' = [NoLast EXCEPT !.op = "native_query", !.outcome = "running"]
    /\ UNCHANGED <<connection_data_ok, connCalls, connDrv>>

RECURSIVE RowsOf(_)
RowsOf(batches) ==
    IF batches = <<>> THEN <<>>
    ELSE <<Head(batches).rows>> \o RowsOf(Tail(batches))

BulkLast(n) ==
    [NoLast EXCEPT !.op = "native_query",
                   !.started_connected = n.started_connected,
                   !.drv = n.drv,
                   !.opened = (n.drv = 1),
                   !.path = "bulk",
                   !.rows_seen = RowsOf(n.batches),
                   !.checks = n.checks,
                   !.check_at = n.check_at]

\* One iteration of `for batch_df in batches_iter`: lines 192-215
NativeQueryBatch ==
    /\ pc = "fetching"
    /\ nq.pending # <<>>
    /\ LET batches == Append(nq.batches, Head(nq.pending))
           batches_rowcount == RowCount(batches)
           due == MemCheckDue(nq.memory_estimation_check_done, batches_rowcount)
           n == [nq EXCEPT !.batches = batches,
                           !.pending = Tail(nq.pending),
                           !.memory_estimation_check_done = (@ \/ due),
                           !.checks = IF due THEN @ + 1 ELSE @,
                           !.check_at = IF due THEN Len(batches) ELSE @]
       IN
         \E available_memory_kb \in AvailableMemoryKb :
           IF due /\ TooLarge(available_memory_kb,
                              RestEstimatedSizeKb(nq.total_rowcount, batches))
           THEN /\ RaisedInTry(HandlerState, nq.need_to_close,
                               [BulkLast(n) EXCEPT !.mem_tripped = TRUE],
                               "MemoryError")
           ELSE /\ nq' = n
                /\ UNCHANGED <<is_connected, connection, leaked, pc, last,
                               connCalls, connDrv>>
    /\ UNCHANGED connection_data_ok

\* The iterator raises while the next batch is downloaded
NativeQueryBatchRaises ==
    /\ pc = "fetching"
    /\ nq.pending # <<>>
    /\ RaisedInTry(HandlerState, nq.need_to_close, BulkLast(nq), "ProgrammingError")
    /\ UNCHANGED connection_data_ok

\* The iterator is exhausted: lines 216-228, then 260-269
NativeQueryEnd ==
    /\ pc = "fetching"
    /\ nq.pending = <<>>
    /\ Finish(HandlerState, nq.need_to_close, [BulkLast(nq) EXCEPT !.kind = "TABLE"])
    /\ UNCHANGED connection_data_ok

----------------------------------------------------------------------------
(* The handler's specification *)

NoMap == [done |-> FALSE, type |-> "None", warnings |-> 0]
NoQuery == [is_select |-> FALSE, has_targets |-> FALSE, targets |-> <<>>]
NoResult == [type |-> "None", columns |-> <<>>]
NoLcOut == [done |-> FALSE, type |-> "None", columns |-> <<>>]

Init ==
    /\ connection_data_ok \in BOOLEAN
    /\ is_connected = FALSE
    /\ connection = "None"
    /\ leaked = 0
    /\ pc = "idle"
    /\ nq = NoNq
    /\ last = NoLast
    /\ connCalls = 0
    /\ connDrv = 0
    /\ internal_type_name = <<>>
    /\ map_out = NoMap
    /\ query = NoQuery
    /\ result = NoResult
    /\ lc_out = NoLcOut

Others == UNCHANGED <<mapVars, colVars>>

Next ==
    \/ Connect /\ Others
    \/ Disconnect /\ Others
    \/ CheckConnection /\ Others
    \/ NativeQueryConnectFails /\ Others
    \/ NativeQueryCursorFails /\ Others
    \/ NativeQueryExecuteFails /\ Others
    \/ NativeQueryBulkFails /\ Others
    \/ NativeQueryFallbackFails /\ Others
    \/ NativeQueryFallback /\ Others
    \/ NativeQueryBulkStart /\ Others
    \/ NativeQueryBatch /\ Others
    \/ NativeQueryBatchRaises /\ Others
    \/ NativeQueryEnd /\ Others

Spec == Init /\ [][Next]_vars

----------------------------------------------------------------------------
(* Claims about the handler, checked under Spec *)

\* C1, as stated: when the memory-feasibility check of native_query finds the
\* extrapolated size of the remaining rows above 90% of the available memory,
\* the out-of-memory error leaves native_query as an exception and is not
\* turned into an ERROR result.
C1_MemoryErrorPropagates ==
    last.mem_tripped => (last.outcome = "raise" /\ last.exc = "MemoryError")

\* C1, amended: when the memory-feasibility check trips, native_query returns
\* an ERROR result carrying the MemoryError, as for every other exception
\* raised while the query runs; no exception leaves the call.
C1_MemoryErrorBecomesErrorResult ==
    last.mem_tripped =>
        /\ last.op = "native_query"
        /\ last.outcome = "return"
        /\ last.kind = "ERROR"
        /\ last.exc = "MemoryError"

\* A call whose guard tripped at the second of its batches
C1_Witness ==
    /\ last.mem_tripped
    /\ last.kind = "ERROR"
    /\ last.check_at = 2
    /\ Len(last.rows_seen) = 2

\* C2: a native_query call that starts Disconnected closes the connection it
\* opened and leaves the handler Disconnected on every exit path; a call that
\* starts Connected leaves the connection open and the handler Connected.
C2_ConnectionRestoredOnEveryExit ==
    (pc = "idle" /\ last.op = "native_query") =>
        IF last.started_connected
        THEN is_connected /\ connection = "open"
        ELSE ~is_connected /\ (last.opened => connection = "closed")

\* C3, as stated: two connect() calls with no disconnect() call between them
\* make at most one driver connection call in total, whatever else happens.
C3_AtMostOneDriverCall ==
    connCalls = 2 => connDrv <= 1

\* C3, amended: a connect() call makes at most one driver connection call,
\* and one that starts with the handler Connected makes none, returns the
\* existing handle and leaves the handler as it was.
C3_ConnectedConnectIsNoOp ==
    [][ (pc = "idle" /\ last'.op = "connect") =>
          /\ last'.drv <= 1
          /\ is_connected =>
               /\ last'.drv = 0
               /\ last'.outcome = "return"
               /\ UNCHANGED <<is_connected, connection, leaked>> ]_vars

\* Two connect() calls in a row, the first calling the driver, the second not
C3_Witness ==
    /\ last.op = "connect"
    /\ last.started_connected
    /\ last.drv = 0
    /\ connCalls = 2
    /\ connDrv = 1

\* C4: a check_connection() call that starts Disconnected and opens a driver
\* connection has closed it when it returns, whether 'select 1' succeeded or
\* failed, and the handler is Disconnected.
C4_CheckConnectionRestores ==
    ( /\ last.op = "check_connection"
      /\ last.outcome = "return"
      /\ ~last.started_connected
      /\ last.opened ) =>
        (~is_connected /\ connection = "closed")

\* C5: on the fallback path an empty sequence of records gives an OK result
\* without an affected-row count and a logged warning, not a TABLE result.
C5_EmptyFallbackIsOk ==
    ( /\ last.op = "native_query"
      /\ last.path = "fallback"
      /\ last.outcome = "return"
      /\ last.fetched_list
      /\ last.fetched_len = 0 ) =>
        (last.kind = "OK" /\ ~last.has_affected /\ last.warned)

RECURSIVE FirstOver(_, _, _)
\* The index of the first batch after which the cumulative row count is above
\* MemCheckRows, 0 when there is none; rows is the sequence of batch lengths.
FirstOver(rows, k, sum) ==
    IF k > Len(rows) THEN 0
    ELSE IF sum + rows[k] > MemCheckRows THEN k
    ELSE FirstOver(rows, k + 1, sum + rows[k])

CheckedExactlyAtFirstOver(rows, checks, check_at) ==
    /\ checks <= 1
    /\ check_at = FirstOver(rows, 1, 0)
    /\ checks = IF check_at = 0 THEN 0 ELSE 1

\* C9: while the batches of one query are consumed the memory-feasibility
\* check is made at most once, at the first batch after which the cumulative
\* row count is above 1000, and never when the count stays at or below 1000.
C9_MemoryCheckOnceAtFirstOver ==
    /\ pc = "fetching" =>
         CheckedExactlyAtFirstOver(RowsOf(nq.batches), nq.checks, nq.check_at)
    /\ (last.op = "native_query" /\ last.path = "bulk") =>
         CheckedExactlyAtFirstOver(last.rows_seen, last.checks, last.check_at)

\* Three batches consumed, the check made at the second and not again
C9_Witness ==
    /\ pc = "fetching"
    /\ Len(nq.batches) = 3
    /\ RowCount(SubSeq(nq.batches, 1, 1)) <= MemCheckRows
    /\ nq.check_at = 2
    /\ nq.checks = 1

\* C10: the handler holds exactly one open driver connection when it is
\* Connected and none when it is Disconnected.
C10_StateTracksDriverResource ==
    OpenCount(HandlerState) = IF is_connected THEN 1 ELSE 0

----------------------------------------------------------------------------
(* Strings as sequences of characters: str.upper, str.lower, str.isupper, *)
(* and the substring test of `x in s` for a string s                      *)

UpperLetters == <<"A", "B", "C", "D", "E", "F", "G", "H", "I", "J", "K", "L", "M", "N", "O", "P", "Q", "R", "S", "T", "U", "V", "W", "X", "Y", "Z">>
LowerLetters == <<"a", "b", "c", "d", "e", "f", "g", "h", "i", "j", "k", "l", "m", "n", "o", "p", "q", "r", "s", "t", "u", "v", "w", "x", "y", "z">>

LetterIndex(letters, ch) == CHOOSE i \in 1..Len(letters) : letters[i] = ch
IsUpperLetter(ch) == \E i \in 1..Len(UpperLetters) : UpperLetters[i] = ch
IsLowerLetter(ch) == \E i \in 1..Len(LowerLetters) : LowerLetters[i] = ch

\* str.upper()
upper(str) ==
    [i \in 1..Len(str) |->
        IF IsLowerLetter(str[i])
        THEN UpperLetters[LetterIndex(LowerLetters, str[i])]
        ELSE str[i]]

\* str.lower()
lower(str) ==
    [i \in 1..Len(str) |->
        IF IsUpperLetter(str[i])
        THEN LowerLetters[LetterIndex(UpperLetters, str[i])]
        ELSE str[i]]

\* str.isupper(): no lower-case letter and at least one upper-case letter
isupper(str) ==
    /\ \A i \in 1..Len(str) : ~IsLowerLetter(str[i])
    /\ \E i \in 1..Len(str) : IsUpperLetter(str[i])

\* `x in s` for strings: x occurs in s as a substring
IsSubstring(x, str) ==
    \E i \in 0..(Len(str) - Len(x)) : SubSeq(str, i + 1, i + Len(x)) = x

----------------------------------------------------------------------------
(* _map_type *)

\* types_map, in the order of the dict literal. A key written ('A', 'B') or
\* ('A',) is a tuple; a key written ('A') is the string 'A'.
types_map ==
    <<
      \* ('NUMBER', 'DECIMAL', 'DEC', 'NUMERIC'): DECIMAL
      [is_tuple |-> TRUE, type |-> "DECIMAL", names |-> <<
          <<"N", "U", "M", "B", "E", "R">>,
          <<"D", "E", "C", "I", "M", "A", "L">>,
          <<"D", "E", "C">>,
          <<"N", "U", "M", "E", "R", "I", "C">>>>],
      \* ('INT , INTEGER , BIGINT , SMALLINT , TINYINT , BYTEINT'): INT, a parenthesised string
      [is_tuple |-> FALSE, type |-> "INT", names |-> <<
          <<"I", "N", "T", " ", ",", " ", "I", "N", "T", "E", "G", "E", "R", " ", ",", " ", "B", "I", "G", "I", "N", "T", " ", ",", " ", "S", "M", "A", "L", "L", "I", "N", "T", " ", ",", " ", "T", "I", "N", "Y", "I", "N", "T", " ", ",", " ", "B", "Y", "T", "E", "I", "N", "T">>>>],
      \* ('FLOAT', 'FLOAT4', 'FLOAT8'): FLOAT
      [is_tuple |-> TRUE, type |-> "FLOAT", names |-> <<
          <<"F", "L", "O", "A", "T">>,
          <<"F", "L", "O", "A", "T", "4">>,
          <<"F", "L", "O", "A", "T", "8">>>>],
      \* ('DOUBLE', 'DOUBLE PRECISION', 'REAL'): DOUBLE
      [is_tuple |-> TRUE, type |-> "DOUBLE", names |-> <<
          <<"D", "O", "U", "B", "L", "E">>,
          <<"D", "O", "U", "B", "L", "E", " ", "P", "R", "E", "C", "I", "S", "I", "O", "N">>,
          <<"R", "E", "A", "L">>>>],
      \* ('VARCHAR'): VARCHAR, a parenthesised string
      [is_tuple |-> FALSE, type |-> "VARCHAR", names |-> <<
          <<"V", "A", "R", "C", "H", "A", "R">>>>],
      \* ('CHAR', 'CHARACTER', 'NCHAR'): CHAR
      [is_tuple |-> TRUE, type |-> "CHAR", names |-> <<
          <<"C", "H", "A", "R">>,
          <<"C", "H", "A", "R", "A", "C", "T", "E", "R">>,
          <<"N", "C", "H", "A", "R">>>>],
      \* ('STRING', 'TEXT', 'NVARCHAR'): TEXT
      [is_tuple |-> TRUE, type |-> "TEXT", names |-> <<
          <<"S", "T", "R", "I", "N", "G">>,
          <<"T", "E", "X", "T">>,
          <<"N", "V", "A", "R", "C", "H", "A", "R">>>>],
      \* ('NVARCHAR2', 'CHAR VARYING', 'NCHAR VARYING'): VARCHAR
      [is_tuple |-> TRUE, type |-> "VARCHAR", names |-> <<
          <<"N", "V", "A", "R", "C", "H", "A", "R", "2">>,
          <<"C", "H", "A", "R", " ", "V", "A", "R", "Y", "I", "N", "G">>,
          <<"N", "C", "H", "A", "R", " ", "V", "A", "R", "Y", "I", "N", "G">>>>],
      \* ('BINARY', 'VARBINARY'): BINARY
      [is_tuple |-> TRUE, type |-> "BINARY", names |-> <<
          <<"B", "I", "N", "A", "R", "Y">>,
          <<"V", "A", "R", "B", "I", "N", "A", "R", "Y">>>>],
      \* ('BOOLEAN'): BOOL
      [is_tuple |-> TRUE, type |-> "BOOL", names |-> <<
          <<"B", "O", "O", "L", "E", "A", "N">>>>],
      \* ('TIMESTAMP_NTZ', 'DATETIME'): DATETIME
      [is_tuple |-> TRUE, type |-> "DATETIME", names |-> <<
          <<"T", "I", "M", "E", "S", "T", "A", "M", "P", "_", "N", "T", "Z">>,
          <<"D", "A", "T", "E", "T", "I", "M", "E">>>>],
      \* ('DATE'): DATE
      [is_tuple |-> TRUE, type |-> "DATE", names |-> <<
          <<"D", "A", "T", "E">>>>],
      \* ('TIME'): TIME
      [is_tuple |-> TRUE, type |-> "TIME", names |-> <<
          <<"T", "I", "M", "E">>>>],
      \* ('TIMESTAMP_LTZ'): DATETIME, a parenthesised string
      [is_tuple |-> FALSE, type |-> "DATETIME", names |-> <<
          <<"T", "I", "M", "E", "S", "T", "A", "M", "P", "_", "L", "T", "Z">>>>],
      \* ('TIMESTAMP_TZ'): DATETIME, a parenthesised string
      [is_tuple |-> FALSE, type |-> "DATETIME", names |-> <<
          <<"T", "I", "M", "E", "S", "T", "A", "M", "P", "_", "T", "Z">>>>],
      \* ('VARIANT', 'OBJECT', 'ARRAY', 'MAP', 'GEOGRAPHY', 'GEOMETRY', 'VECTOR'): VARCHAR
      [is_tuple |-> TRUE, type |-> "VARCHAR", names |-> <<
          <<"V", "A", "R", "I", "A", "N", "T">>,
          <<"O", "B", "J", "E", "C", "T">>,
          <<"A", "R", "R", "A", "Y">>,
          <<"M", "A", "P">>,
          <<"G", "E", "O", "G", "R", "A", "P", "H", "Y">>,
          <<"G", "E", "O", "M", "E", "T", "R", "Y">>,
          <<"V", "E", "C", "T", "O", "R">>>>]
    >>

\* `internal_type_name in db_types_list`: membership for a tuple, substring
\* for a string
InKey(name, entry) ==
    IF entry.is_tuple
    THEN \E i \in 1..Len(entry.names) : entry.names[i] = name
    ELSE IsSubstring(name, entry.names[1])

\* _map_type: the first key of types_map that holds the upper-cased name
\* decides; without one a warning is logged and VARCHAR returned.
_map_type(name) ==
    LET u == upper(name)
        hits == {i \in 1..Len(types_map) : InKey(u, types_map[i])}
    IN IF hits # {}
       THEN [done |-> TRUE,
             type |-> types_map[CHOOSE i \in hits : \A j \in hits : i <= j].type,
             warnings |-> 0]
       ELSE [done |-> TRUE, type |-> "VARCHAR", warnings |-> 1]

\* The synonym tables as documented: every supported name with its tag
DocumentedTypes ==
    {
      [name |-> <<"N", "U", "M", "B", "E", "R">>, tag |-> "DECIMAL"],
      [name |-> <<"D", "E", "C", "I", "M", "A", "L">>, tag |-> "DECIMAL"],
      [name |-> <<"D", "E", "C">>, tag |-> "DECIMAL"],
      [name |-> <<"N", "U", "M", "E", "R", "I", "C">>, tag |-> "DECIMAL"],
      [name |-> <<"I", "N", "T">>, tag |-> "INT"],
      [name |-> <<"I", "N", "T", "E", "G", "E", "R">>, tag |-> "INT"],
      [name |-> <<"B", "I", "G", "I", "N", "T">>, tag |-> "INT"],
      [name |-> <<"S", "M", "A", "L", "L", "I", "N", "T">>, tag |-> "INT"],
      [name |-> <<"T", "I", "N", "Y", "I", "N", "T">>, tag |-> "INT"],
      [name |-> <<"B", "Y", "T", "E", "I", "N", "T">>, tag |-> "INT"],
      [name |-> <<"F", "L", "O", "A", "T">>, tag |-> "FLOAT"],
      [name |-> <<"F", "L", "O", "A", "T", "4">>, tag |-> "FLOAT"],
      [name |-> <<"F", "L", "O", "A", "T", "8">>, tag |-> "FLOAT"],
      [name |-> <<"D", "O", "U", "B", "L", "E">>, tag |-> "DOUBLE"],
      [name |-> <<"D", "O", "U", "B", "L", "E", " ", "P", "R", "E", "C", "I", "S", "I", "O", "N">>, tag |-> "DOUBLE"],
      [name |-> <<"R", "E", "A", "L">>, tag |-> "DOUBLE"],
      [name |-> <<"V", "A", "R", "C", "H", "A", "R">>, tag |-> "VARCHAR"],
      [name |-> <<"N", "V", "A", "R", "C", "H", "A", "R", "2">>, tag |-> "VARCHAR"],
      [name |-> <<"C", "H", "A", "R", " ", "V", "A", "R", "Y", "I", "N", "G">>, tag |-> "VARCHAR"],
      [name |-> <<"N", "C", "H", "A", "R", " ", "V", "A", "R", "Y", "I", "N", "G">>, tag |-> "VARCHAR"],
      [name |-> <<"V", "A", "R", "I", "A", "N", "T">>, tag |-> "VARCHAR"],
      [name |-> <<"O", "B", "J", "E", "C", "T">>, tag |-> "VARCHAR"],
      [name |-> <<"A", "R", "R", "A", "Y">>, tag |-> "VARCHAR"],
      [name |-> <<"M", "A", "P">>, tag |-> "VARCHAR"],
      [name |-> <<"G", "E", "O", "G", "R", "A", "P", "H", "Y">>, tag |-> "VARCHAR"],
      [name |-> <<"G", "E", "O", "M", "E", "T", "R", "Y">>, tag |-> "VARCHAR"],
      [name |-> <<"V", "E", "C", "T", "O", "R">>, tag |-> "VARCHAR"],
      [name |-> <<"S", "T", "R", "I", "N", "G">>, tag |-> "TEXT"],
      [name |-> <<"T", "E", "X", "T">>, tag |-> "TEXT"],
      [name |-> <<"N", "V", "A", "R", "C", "H", "A", "R">>, tag |-> "TEXT"],
      [name |-> <<"C", "H", "A", "R">>, tag |-> "CHAR"],
      [name |-> <<"C", "H", "A", "R", "A", "C", "T", "E", "R">>, tag |-> "CHAR"],
      [name |-> <<"N", "C", "H", "A", "R">>, tag |-> "CHAR"],
      [name |-> <<"B", "I", "N", "A", "R", "Y">>, tag |-> "BINARY"],
      [name |-> <<"V", "A", "R", "B", "I", "N", "A", "R", "Y">>, tag |-> "BINARY"],
      [name |-> <<"B", "O", "O", "L", "E", "A", "N">>, tag |-> "BOOL"],
      [name |-> <<"T", "I", "M", "E", "S", "T", "A", "M", "P", "_", "N", "T", "Z">>, tag |-> "DATETIME"],
      [name |-> <<"D", "A", "T", "E", "T", "I", "M", "E">>, tag |-> "DATETIME"],
      [name |-> <<"T", "I", "M", "E", "S", "T", "A", "M", "P", "_", "L", "T", "Z">>, tag |-> "DATETIME"],
      [name |-> <<"T", "I", "M", "E", "S", "T", "A", "M", "P", "_", "T", "Z">>, tag |-> "DATETIME"],
      [name |-> <<"D", "A", "T", "E">>, tag |-> "DATE"],
      [name |-> <<"T", "I", "M", "E">>, tag |-> "TIME"]
    }

DocumentedNames == {d.name : d \in DocumentedTypes}
DocumentedTag(name) == (CHOOSE d \in DocumentedTypes : d.name = name).tag

\* Type names that are in no synonym table
UnknownNames ==
    { <<"T", "I", "M", "E", "S", "T", "A", "M", "P">>,
      <<"J", "S", "O", "N">>,
      <<"U", "U", "I", "D">>,
      <<"I", "N", "T", "E", "R", "V", "A", "L">>,
      <<"V", "A", "R">> }

\* first letter as written, the rest in lower case
Capitalized(str) ==
    [i \in 1..Len(str) |-> IF i = 1 THEN str[i] ELSE lower(str)[i]]

TypeNameInputs ==
    UNION {{n, lower(n), Capitalized(n)} : n \in DocumentedNames \cup UnknownNames}

MapType ==
    /\ ~map_out.done
    /\ map_out' = _map_type(internal_type_name)
    /\ UNCHANGED <<internal_type_name, handlerVars, colVars>>

InitMap ==
    /\ internal_type_name \in TypeNameInputs
    /\ map_out = NoMap
    /\ connection_data_ok = TRUE
    /\ is_connected = FALSE
    /\ connection = "None"
    /\ leaked = 0
    /\ pc = "idle"
    /\ nq = NoNq
    /\ last = NoLast
    /\ connCalls = 0
    /\ connDrv = 0
    /\ query = NoQuery
    /\ result = NoResult
    /\ lc_out = NoLcOut

NextMap == MapType

SpecMap == InitMap /\ [][NextMap]_vars

\* C7: for every name of the supported synonym tables, in any letter case,
\* _map_type returns the documented tag.
C7_SupportedNamesGetDocumentedTag ==
    (map_out.done /\ upper(internal_type_name) \in DocumentedNames) =>
        map_out.type = DocumentedTag(upper(internal_type_name))

\* C8: for every name that is in no synonym table, _map_type returns VARCHAR
\* and logs exactly one warning.
C8_UnknownNamesWarnAndFallBack ==
    (map_out.done /\ upper(internal_type_name) \notin DocumentedNames) =>
        (map_out.type = "VARCHAR" /\ map_out.warnings = 1)

----------------------------------------------------------------------------
(* query() and lowercase_columns *)

\* Names of columns and aliases as written in the query
ColumnNames == { <<"F">>, <<"f">>, <<"F", "g">> }
AliasNames == { <<"F">>, <<"g">> }
FunctionLabels == { <<"F">> }

NoAlias == [present |-> FALSE, name |-> <<>>, is_quoted |-> FALSE]
Aliases == {NoAlias} \cup
           [present : {TRUE}, name : AliasNames, is_quoted : BOOLEAN]

\* A select target: an Identifier (parts[-1] and is_quoted[-1]) or another
\* node (a Function), each with its alias (None or an Identifier)
Targets ==
    [kind : {"Identifier"}, name : ColumnNames, is_quoted : BOOLEAN, alias : Aliases]
      \cup
    [kind : {"Function"}, name : FunctionLabels, is_quoted : {FALSE}, alias : Aliases]

\* The label the warehouse gives the column of a target: the alias when there
\* is one, else the identifier; as written when quoted, upper-cased when not.
ColumnLabel(t) ==
    IF t.alias.present
    THEN IF t.alias.is_quoted THEN t.alias.name ELSE upper(t.alias.name)
    ELSE IF t.kind = "Identifier"
    THEN IF t.is_quoted THEN t.name ELSE upper(t.name)
    ELSE t.name

Queries ==
    {[is_select |-> TRUE, has_targets |-> TRUE, targets |-> ts] :
        ts \in SeqsUpTo(Targets, MaxTargets) \ {<<>>}}
      \cup {[is_select |-> TRUE, has_targets |-> FALSE, targets |-> <<>>]}
      \cup {[is_select |-> FALSE, has_targets |-> FALSE, targets |-> <<>>]}

\* The Responses native_query can hand to lowercase_columns for a query:
\* a TABLE (data_frame set) or an OK or ERROR result (data_frame None)
ResultsFor(q) ==
    { [type |-> "OK", columns |-> <<>>], [type |-> "ERROR", columns |-> <<>>] }
      \cup
    ( IF q.is_select /\ q.has_targets
      THEN {[type |-> "TABLE",
             columns |-> [i \in 1..Len(q.targets) |-> ColumnLabel(q.targets[i])]]}
      ELSE {[type |-> "TABLE", columns |-> <<c>>] : c \in ColumnNames} )

\* the loop body with `elif isinstance(column, Identifier)` written as `if`
TargetQuotedColumns_IdentifierToo(t) ==
    (IF t.alias.present /\ t.alias.is_quoted THEN {t.alias.name} ELSE {})
      \cup
    (IF t.kind = "Identifier" /\ t.is_quoted THEN {t.name} ELSE {})

\* The body of `for column in query.targets`: what one target appends to
\* quoted_columns
TargetQuotedColumns(t) ==
    IF t.alias.present
    THEN IF t.alias.is_quoted THEN {t.alias.name} ELSE {}
    ELSE IF t.kind = "Identifier"
    THEN IF t.is_quoted THEN {t.name} ELSE {}
    ELSE {}

\* quoted_columns after the loop
quoted_columns(q) ==
    IF q.has_targets
    THEN UNION {TargetQuotedColumns(q.targets[i]) : i \in 1..Len(q.targets)}
    ELSE {}

\* lowercase_columns(result, query)
lowercase_columns(res, q) ==
    IF ~q.is_select \/ res.type # "TABLE"
    THEN [done |-> TRUE, type |-> res.type, columns |-> res.columns]
    ELSE [done |-> TRUE, type |-> res.type,
          columns |-> [i \in 1..Len(res.columns) |->
                         IF isupper(res.columns[i])
                            /\ res.columns[i] \notin quoted_columns(q)
                         THEN lower(res.columns[i])
                         ELSE res.columns[i]]]

\* query(): native_query has returned `result`; the casing fixup is applied
Query ==
    /\ ~lc_out.done
    /\ lc_out' = lowercase_columns(result, query)
    /\ UNCHANGED <<query, result, handlerVars, mapVars>>

InitCols ==
    /\ query \in Queries
    /\ result \in ResultsFor(query)
    /\ lc_out = NoLcOut
    /\ connection_data_ok = TRUE
    /\ is_connected = FALSE
    /\ connection = "None"
    /\ leaked = 0
    /\ pc = "idle"
    /\ nq = NoNq
    /\ last = NoLast
    /\ connCalls = 0
    /\ connDrv = 0
    /\ internal_type_name = <<>>
    /\ map_out = NoMap

NextCols == Query

SpecCols == InitCols /\ [][NextCols]_vars

\* The result of the fixup when `quoted` is the set of names that count as
\* quoted
FixupIs(quoted) ==
    IF query.is_select /\ result.type = "TABLE"
    THEN /\ lc_out.type = "TABLE"
         /\ Len(lc_out.columns) = Len(result.columns)
         /\ \A i \in 1..Len(result.columns) :
              lc_out.columns[i] =
                IF isupper(result.columns[i]) /\ result.columns[i] \notin quoted
                THEN lower(result.columns[i])
                ELSE result.columns[i]
    ELSE lc_out.type = result.type /\ lc_out.columns = result.columns

TargetsOf(q) == {q.targets[i] : i \in 1..Len(q.targets)}

\* the names quoted in some target's identifier or in some target's alias
QuotedInIdentifierOrAlias ==
    {t.alias.name : t \in {x \in TargetsOf(query) :
                              x.alias.present /\ x.alias.is_quoted}}
      \cup
    {t.name : t \in {x \in TargetsOf(query) :
                        x.kind = "Identifier" /\ x.is_quoted}}

\* the names quoted in some target's alias, or in the identifier of a target
\* that has no alias
QuotedInLabel ==
    {t.alias.name : t \in {x \in TargetsOf(query) :
                              x.alias.present /\ x.alias.is_quoted}}
      \cup
    {t.name : t \in {x \in TargetsOf(query) :
                        ~x.alias.present /\ x.kind = "Identifier" /\ x.is_quoted}}

\* C6, as stated: for a SELECT with a tabular result a column name is
\* lower-cased exactly when it is fully upper-case and not quoted in a
\* target's identifier or alias; other results are returned unchanged.
C6_LowercasedUnlessQuotedInIdentifierOrAlias ==
    lc_out.done => FixupIs(QuotedInIdentifierOrAlias)

\* C6, amended: for a SELECT with a tabular result a column name is
\* lower-cased exactly when it is fully upper-case and is neither the quoted
\* alias of a target nor the quoted identifier of a target without alias (a
\* quoted identifier under an alias does not protect its name); other results
\* are returned unchanged.
C6_LowercasedUnlessQuotedInLabel ==
    lc_out.done => FixupIs(QuotedInLabel)

\* A SELECT of a quoted identifier under an unquoted alias and of the same
\* name unquoted: both columns are lower-cased
C6_Witness ==
    /\ lc_out.done
    /\ query.is_select
    /\ result.type = "TABLE"
    /\ Len(query.targets) = 2
    /\ query.targets[1].alias.present
    /\ ~query.targets[1].alias.is_quoted
    /\ query.targets[1].is_quoted
    /\ result.columns[2] = query.targets[1].name
    /\ isupper(result.columns[2])
    /\ lc_out.columns[2] = lower(result.columns[2])

====
